---------------------------- MODULE Spec2Model ----------------------------
(* State-machine model of src/wiring/udoo.c: the Arduino-style pin I/O     *)
(* layer of libwyliodrin for the UDOO board.  The program is one thread;   *)
(* pc is its position, frame holds the arguments and locals of the running *)
(* function, and log records, in order, the calls the running (or the most *)
(* recent) function issued to the capabilities it sits on: the GPIO        *)
(* driver, the ADC driver, the pin table and the diagnostic sink.          *)
EXTENDS Integers, Sequences, FiniteSets

VARIABLES pc, frame, log, ret, exported, dir, adcEnabled,
          analog_reference, _readResolution, _writeResolution

vars == <<pc, frame, log, ret, exported, dir, adcEnabled,
          analog_reference, _readResolution, _writeResolution>>

-----------------------------------------------------------------------------
(* Bounds of the model.                                                    *)

\* GPIO pins handed to the digital and shift operations are 0..MaxPin.
MaxPin == 1
\* At most MaxPolls polls of one conversion find the converter not ready.
MaxPolls == 2

-----------------------------------------------------------------------------
(* Constants of wiring.h, udooConfig.h and chip.h (headers of the          *)
(* repository that udoo.c includes).                                       *)

LOW == 0
HIGH == 1
INPUT == 0
OUTPUT == 1
LSBFIRST == 0
MSBFIRST == 1
AR_DEFAULT == 0
AR_OTHER == 1
\* First and last pin of the analog range (the SAM3X header numbering).
A0 == 54
CANTX == 69
\* Width of a raw ADC sample, and the data-ready bit of the status register.
ADC_RESOLUTION == 12
ADC_ISR_DRDY == 16777216
\* An end-of-conversion bit of the status register, other than data-ready.
ADC_ISR_EOC0 == 1
NOT_ANALOG_PIN_ERROR == -1
CLOCK_TIME_ERROR == -2
\* The value gpioGetValue returns for an invalid or unexported pin.
GPIO_READ_ERROR == -1
\* eAnalogChannel: ADC0..ADC15 are 0..15, then the two DAC lines.
NO_ADC == -1
DA0 == 16
DA1 == 17

\* A 32-bit word is written as its two's-complement (int32_t) reading, so a
\* negative sentinel returned through uint32_t keeps its header value and
\* the unsigned words from 2^31 up are the negative numbers.  int, long,
\* unsigned int and unsigned long are 32 bits wide on the UDOO's processors.
Pow2(n) == 2 ^ n
ToUint8(x) == x % Pow2(8)
\* The two 16-bit halves of a 32-bit word, and the word of two halves.
ULo(x) == x % Pow2(16)
UHi(x) == (x \div Pow2(16)) % Pow2(16)
Word(h, l) == (IF h >= Pow2(15) THEN h - Pow2(16) ELSE h) * Pow2(16) + l
\* value << n on 32 bits: (value * 2^n) mod 2^32, for 0 <= n < 32.
ShiftLeft32(value, n) ==
  IF n >= 16
    THEN Word((ULo(value) * Pow2(n - 16)) % Pow2(16), 0)
    ELSE Word((UHi(value) * Pow2(n) + (ULo(value) * Pow2(n)) \div Pow2(16)) % Pow2(16),
              (ULo(value) * Pow2(n)) % Pow2(16))
\* value >> n on 32 bits, unsigned: the integral part of value / 2^n.
ShiftRight32(value, n) ==
  IF n >= 16
    THEN Word(0, UHi(value) \div Pow2(n - 16))
    ELSE Word(UHi(value) \div Pow2(n),
              (UHi(value) % Pow2(n)) * Pow2(16 - n) + ULo(value) \div Pow2(n))
\* x + y and x * c on 32 bits, wrapping; c is 1000 or 1000000.
Add32(x, y) ==
  Word((UHi(x) + UHi(y) + (ULo(x) + ULo(y)) \div Pow2(16)) % Pow2(16),
       (ULo(x) + ULo(y)) % Pow2(16))
Mul32(x, c) ==
  Word((UHi(x) * ULo(c) + ULo(x) * UHi(c) + (ULo(x) * ULo(c)) \div Pow2(16)) % Pow2(16),
       (ULo(x) * ULo(c)) % Pow2(16))
\* x / d on 32 bits, unsigned, for a divisor below 2^15.
UDiv32(x, d) ==
  Word(UHi(x) \div d, ((UHi(x) % d) * Pow2(16) + ULo(x)) \div d)

\* Bitwise and / or of two naturals, as C computes & and |.
RECURSIVE BitAnd(_, _)
BitAnd(x, y) ==
  IF x = 0 \/ y = 0 THEN 0
  ELSE (IF x % 2 = 1 /\ y % 2 = 1 THEN 1 ELSE 0) + 2 * BitAnd(x \div 2, y \div 2)

RECURSIVE BitOr(_, _)
BitOr(x, y) ==
  IF x = 0 THEN y
  ELSE IF y = 0 THEN x
  ELSE (IF x % 2 = 1 \/ y % 2 = 1 THEN 1 ELSE 0) + 2 * BitOr(x \div 2, y \div 2)

\* The board's pin table, analogPin[pin]: the converter's channel number and
\* the analog channel of each pin of the analog range.
analogPin ==
  [p \in A0..CANTX |->
     CASE p = 54 -> [ADCChannelNumber |-> 7,  analogChannel |-> 0]
       [] p = 55 -> [ADCChannelNumber |-> 6,  analogChannel |-> 1]
       [] p = 56 -> [ADCChannelNumber |-> 5,  analogChannel |-> 2]
       [] p = 57 -> [ADCChannelNumber |-> 4,  analogChannel |-> 3]
       [] p = 58 -> [ADCChannelNumber |-> 3,  analogChannel |-> 4]
       [] p = 59 -> [ADCChannelNumber |-> 2,  analogChannel |-> 5]
       [] p = 60 -> [ADCChannelNumber |-> 1,  analogChannel |-> 6]
       [] p = 61 -> [ADCChannelNumber |-> 0,  analogChannel |-> 7]
       [] p = 62 -> [ADCChannelNumber |-> 10, analogChannel |-> 8]
       [] p = 63 -> [ADCChannelNumber |-> 11, analogChannel |-> 9]
       [] p = 64 -> [ADCChannelNumber |-> 12, analogChannel |-> 10]
       [] p = 65 -> [ADCChannelNumber |-> 13, analogChannel |-> 11]
       [] p = 66 -> [ADCChannelNumber |-> DA0, analogChannel |-> 12]
       [] p = 67 -> [ADCChannelNumber |-> DA1, analogChannel |-> 13]
       [] p = 68 -> [ADCChannelNumber |-> NO_ADC, analogChannel |-> 14]
       [] OTHER  -> [ADCChannelNumber |-> NO_ADC, analogChannel |-> 15]]

-----------------------------------------------------------------------------
(* Inputs.                                                                 *)

Pins == 0..MaxPin
Modes == {INPUT, OUTPUT, 2, -1}
Levels == {LOW, HIGH}
References == {AR_DEFAULT, AR_OTHER}
\* uint32_t pins handed to analogRead: the analog range, its neighbours, 0.
AnalogPinInputs == {0} \cup ((A0 - 1)..(CANTX + 1))
\* Raw 12-bit samples the converter delivers.
RawValues == {0, 3, 4, 2730, 4095}
\* Values of the status register a poll can return.
NotReadyStatus == {0, ADC_ISR_EOC0}
ReadyStatus == {ADC_ISR_DRDY, ADC_ISR_DRDY + ADC_ISR_EOC0}

\* One call to a capability: its name, its first argument, and its second
\* argument or its result.
Call(op, a, b) == [op |-> op, a |-> a, b |-> b]

NoFrame ==
  [fn |-> "none", pin |-> 0, mode |-> 0, myPinChannel |-> 0, myPinValue |-> 0,
   polls |-> 0, dataPin |-> 0, clockPin |-> 0, bitOrder |-> 0, val |-> 0,
   i |-> 0, value |-> 0, samples |-> <<>>, loopback |-> FALSE,
   from |-> 0, to |-> 0, arg |-> 0, stuck |-> FALSE,
   clock |-> [ok |-> TRUE, sec |-> 0, nsec |-> 0]]

Init ==
  /\ pc = "idle"
  /\ frame = NoFrame
  /\ log = <<>>
  /\ ret = <<>>
  /\ exported = {}
  /\ dir = [p \in Pins |-> "none"]
  /\ adcEnabled = {}
  /\ analog_reference = AR_DEFAULT
  /\ _readResolution = 10
  /\ _writeResolution = 8

hw == <<exported, dir, adcEnabled>>
settings == <<analog_reference, _readResolution, _writeResolution>>

\* No function of the module is running: the caller is between two calls
\* ("idle"), or a call has just returned ("done") and its frame, log and
\* return value are still there to be looked at.
NoCall == pc \in {"idle", "done"}

\* The caller takes the result and goes on to its next call.
caller_continue ==
  /\ pc = "done"
  /\ pc' = "idle"
  /\ frame' = NoFrame
  /\ log' = <<>>
  /\ ret' = <<>>
  /\ UNCHANGED <<hw, settings>>

-----------------------------------------------------------------------------
(* 2. Digital I/O                                                          *)

\* The mode check with its upper side forgotten.
InvalidMode_lower(mode) == mode < INPUT

\* The mode check at the head of pinMode.
InvalidMode(mode) == mode # INPUT /\ mode # OUTPUT

\* pinMode, entry: the mode check.
pinMode_call ==
  /\ pc = "idle"
  /\ \E pin \in Pins, mode \in Modes :
       /\ frame' = [NoFrame EXCEPT !.fn = "pinMode", !.pin = pin, !.mode = mode]
       /\ IF InvalidMode(mode)
            THEN /\ log' = <<Call("debug", 0, 0)>>
                 /\ pc' = "done"
            ELSE /\ log' = <<>>
                 /\ pc' = "pm_export"
  /\ ret' = <<>>
  /\ UNCHANGED <<hw, settings>>

\* gpioExport(pin)
pinMode_export ==
  /\ pc = "pm_export"
  /\ log' = Append(log, Call("gpioExport", frame.pin, 0))
  /\ exported' = exported \cup {frame.pin}
  /\ pc' = "pm_dir"
  /\ UNCHANGED <<frame, ret, dir, adcEnabled, settings>>

\* The two branches of the direction test exchanged.
pinMode_dir_swapped ==
  /\ pc = "pm_dir"
  /\ IF frame.mode = INPUT
       THEN /\ log' = Append(log, Call("gpioSetDirOutput", frame.pin, 0))
            /\ dir' = [dir EXCEPT ![frame.pin] = "out"]
       ELSE /\ log' = Append(log, Call("gpioSetDirInput", frame.pin, 0))
            /\ dir' = [dir EXCEPT ![frame.pin] = "in"]
  /\ pc' = "done"
  /\ UNCHANGED <<frame, ret, exported, adcEnabled, settings>>

\* gpioSetDirInput(pin) or gpioSetDirOutput(pin)
pinMode_dir ==
  /\ pc = "pm_dir"
  /\ IF frame.mode = INPUT
       THEN /\ log' = Append(log, Call("gpioSetDirInput", frame.pin, 0))
            /\ dir' = [dir EXCEPT ![frame.pin] = "in"]
       ELSE /\ log' = Append(log, Call("gpioSetDirOutput", frame.pin, 0))
            /\ dir' = [dir EXCEPT ![frame.pin] = "out"]
  /\ pc' = "done"
  /\ UNCHANGED <<frame, ret, exported, adcEnabled, settings>>

\* digitalWrite acquiring the pin as an output before it writes.
digitalWrite_export ==
  /\ pc = "idle"
  /\ \E pin \in Pins, value \in Levels :
       /\ frame' = [NoFrame EXCEPT !.fn = "digitalWrite", !.pin = pin, !.val = value]
       /\ log' = <<Call("gpioExport", pin, 0), Call("gpioSetDirOutput", pin, 0),
                   Call("gpioSetValue", pin, value)>>
       /\ exported' = exported \cup {pin}
       /\ dir' = [dir EXCEPT ![pin] = "out"]
  /\ ret' = <<>>
  /\ pc' = "done"
  /\ UNCHANGED <<adcEnabled, settings>>

digitalWrite ==
  /\ pc = "idle"
  /\ \E pin \in Pins, value \in Levels :
       /\ frame' = [NoFrame EXCEPT !.fn = "digitalWrite", !.pin = pin, !.val = value]
       /\ log' = <<Call("gpioSetValue", pin, value)>>
  /\ ret' = <<>>
  /\ pc' = "done"
  /\ UNCHANGED <<hw, settings>>

digitalRead ==
  /\ pc = "idle"
  /\ \E pin \in Pins, r \in Levels \cup {GPIO_READ_ERROR} :
       /\ frame' = [NoFrame EXCEPT !.fn = "digitalRead", !.pin = pin]
       /\ log' = <<Call("gpioGetValue", pin, r)>>
       /\ ret' = <<r>>
  /\ pc' = "done"
  /\ UNCHANGED <<hw, settings>>

-----------------------------------------------------------------------------
(* 3. Analog I/O                                                           *)

\* The downscale rounding to nearest instead of truncating.
mapResolution_rounding(value, from, to) ==
  IF from = to THEN value
  ELSE IF from > to
    THEN ShiftRight32(Add32(value, Pow2(from - to - 1)), from - to)
  ELSE ShiftLeft32(value, to - from)

mapResolution(value, from, to) ==
  IF from = to THEN value
  ELSE IF from > to THEN ShiftRight32(value, from - to)
  ELSE ShiftLeft32(value, to - from)

\* analogReference storing the default whatever it is given.
analogReference_ignore ==
  /\ pc = "idle"
  /\ \E arefMode \in References :
       /\ frame' = [NoFrame EXCEPT !.fn = "analogReference", !.mode = arefMode]
       /\ analog_reference' = AR_DEFAULT
  /\ log' = <<>>
  /\ ret' = <<>>
  /\ pc' = "done"
  /\ UNCHANGED <<hw, _readResolution, _writeResolution>>

analogReference ==
  /\ pc = "idle"
  /\ \E arefMode \in References :
       /\ frame' = [NoFrame EXCEPT !.fn = "analogReference", !.mode = arefMode]
       /\ analog_reference' = arefMode
  /\ log' = <<>>
  /\ ret' = <<>>
  /\ pc' = "done"
  /\ UNCHANGED <<hw, _readResolution, _writeResolution>>

\* The range check with its lower bound excluded.
NotAnalogPin_exclusive(myPin) == myPin <= A0 \/ myPin > CANTX

\* The range check at the head of analogRead.
NotAnalogPin(myPin) == myPin < A0 \/ myPin > CANTX

\* The switch with a case label for every channel ADC0..ADC11.
StandardChannel_all(analogChannel) == analogChannel \in 0..11

\* The case labels of analogRead's switch: the channels it converts.
StandardChannel(analogChannel) == analogChannel \in ((0..5) \cup (7..11))

\* analogRead, entry: the range check.
analogRead_call ==
  /\ pc = "idle"
  /\ \E myPin \in AnalogPinInputs :
       /\ frame' = [NoFrame EXCEPT !.fn = "analogRead", !.pin = myPin]
       /\ IF NotAnalogPin(myPin)
            THEN /\ log' = <<Call("debug", myPin, 0)>>
                 /\ ret' = <<NOT_ANALOG_PIN_ERROR>>
                 /\ pc' = "done"
            ELSE /\ log' = <<>>
                 /\ ret' = <<>>
                 /\ pc' = "ar_lookup"
  /\ UNCHANGED <<hw, settings>>

\* myPinChannel = analogPin[myPin].ADCChannelNumber, and the switch on
\* analogPin[myPin].analogChannel.
analogRead_lookup ==
  /\ pc = "ar_lookup"
  /\ log' = Append(log, Call("analogPin", frame.pin, 0))
  /\ frame' = [frame EXCEPT
                 !.myPinChannel = analogPin[frame.pin].ADCChannelNumber]
  /\ IF StandardChannel(analogPin[frame.pin].analogChannel)
       THEN /\ pc' = "ar_enable"
            /\ ret' = ret
       ELSE /\ pc' = "done"
            /\ ret' = <<0>>
  /\ UNCHANGED <<hw, settings>>

\* adc_enable_channel(ADC, myPinChannel)
analogRead_enable ==
  /\ pc = "ar_enable"
  /\ log' = Append(log, Call("adc_enable_channel", frame.myPinChannel, 0))
  /\ adcEnabled' = adcEnabled \cup {frame.myPinChannel}
  /\ pc' = "ar_start"
  /\ UNCHANGED <<frame, ret, exported, dir, settings>>

\* adc_start()
analogRead_start ==
  /\ pc = "ar_start"
  /\ log' = Append(log, Call("adc_start", 0, 0))
  /\ pc' = "ar_poll"
  /\ UNCHANGED <<frame, ret, hw, settings>>

\* The loop condition testing the whole register instead of the one bit.
NotReady_nonzero(status) == status = 0

\* The condition of the poll loop: it goes round while this holds.
NotReady(status) == BitAnd(status, ADC_ISR_DRDY) # ADC_ISR_DRDY

\* One round of while ((adc_get_status(ADC) & ADC_ISR_DRDY) != ADC_ISR_DRDY).
analogRead_poll ==
  /\ pc = "ar_poll"
  /\ ~frame.stuck
  /\ \E status \in NotReadyStatus \cup ReadyStatus :
       /\ status \in NotReadyStatus => frame.polls < MaxPolls
       /\ log' = Append(log, Call("adc_get_status", 0, status))
       /\ IF NotReady(status)
            THEN /\ pc' = "ar_poll"
                 /\ frame' = [frame EXCEPT !.polls = @ + 1]
            ELSE /\ pc' = "ar_read"
                 /\ frame' = frame
  /\ UNCHANGED <<ret, hw, settings>>

\* The converter stalls: it will not raise data-ready for this conversion.
converter_stalls ==
  /\ pc = "ar_poll"
  /\ ~frame.stuck
  /\ frame' = [frame EXCEPT !.stuck = TRUE]
  /\ UNCHANGED <<pc, log, ret, hw, settings>>

\* The poll loop giving up after MaxPolls rounds.
analogRead_poll_giveup ==
  /\ pc = "ar_poll"
  /\ frame.stuck
  /\ \E status \in NotReadyStatus :
       /\ log' = IF frame.polls < MaxPolls
                   THEN Append(log, Call("adc_get_status", 0, status)) ELSE log
       /\ frame' = [frame EXCEPT !.polls = IF @ < MaxPolls THEN @ + 1 ELSE @]
       /\ pc' = IF NotReady(status) /\ frame.polls < MaxPolls
                  THEN "ar_poll" ELSE "ar_read"
  /\ UNCHANGED <<ret, hw, settings>>

\* One round of the poll loop on a stalled converter.  The log keeps the
\* first MaxPolls polls; the rounds after them leave the state as it is.
analogRead_poll_stuck ==
  /\ pc = "ar_poll"
  /\ frame.stuck
  /\ \E status \in NotReadyStatus :
       /\ log' = IF frame.polls < MaxPolls
                   THEN Append(log, Call("adc_get_status", 0, status)) ELSE log
       /\ frame' = [frame EXCEPT !.polls = IF @ < MaxPolls THEN @ + 1 ELSE @]
       /\ pc' = IF NotReady(status) THEN "ar_poll" ELSE "ar_read"
  /\ UNCHANGED <<ret, hw, settings>>

\* myPinValue = adc_get_latest_value(ADC), then mapResolution.
analogRead_read ==
  /\ pc = "ar_read"
  /\ \E raw \in RawValues :
       /\ log' = Append(log, Call("adc_get_latest_value", 0, raw))
       /\ frame' = [frame EXCEPT
                      !.myPinValue = mapResolution(raw, ADC_RESOLUTION, _readResolution)]
  /\ pc' = "ar_disable"
  /\ UNCHANGED <<ret, hw, settings>>

\* The disable naming the analog channel instead of the channel number.
analogRead_disable_other ==
  /\ pc = "ar_disable"
  /\ log' = Append(log, Call("adc_disable_channel",
                             analogPin[frame.pin].analogChannel, 0))
  /\ adcEnabled' = adcEnabled \ {analogPin[frame.pin].analogChannel}
  /\ ret' = <<frame.myPinValue>>
  /\ pc' = "done"
  /\ UNCHANGED <<frame, exported, dir, settings>>

\* adc_disable_channel(ADC, myPinChannel), and the return.
analogRead_disable ==
  /\ pc = "ar_disable"
  /\ log' = Append(log, Call("adc_disable_channel", frame.myPinChannel, 0))
  /\ adcEnabled' = adcEnabled \ {frame.myPinChannel}
  /\ ret' = <<frame.myPinValue>>
  /\ pc' = "done"
  /\ UNCHANGED <<frame, exported, dir, settings>>

-----------------------------------------------------------------------------
(* 4. Advanced I/O                                                         *)

BitOrders == {LSBFIRST, MSBFIRST, 2}
\* The data line as shiftIn's eight reads find it: samples[k] is what the
\* k-th gpioGetValue(dataPin) returns.  The line is driven from outside the
\* program, so its eight levels are an input of the call.
BinaryLines == [1..8 -> Levels]
ErrorLines ==
  {[k \in 1..8 |-> IF k = e THEN GPIO_READ_ERROR ELSE l] : e \in 1..8, l \in Levels}
AllLines == BinaryLines \cup ErrorLines
SomeLines ==
  { <<0, 0, 0, 0, 0, 0, 0, 0>>, <<1, 0, 0, 0, 0, 0, 0, 0>>,
    <<1, 0, 1, 0, 0, 1, 0, 1>>, <<1, 1, 1, 1, 1, 1, 1, 1>>,
    <<0, 0, GPIO_READ_ERROR, 0, 0, 0, 0, 0>> }
AllBytes == 0..255
SomeBytes == {0, 1, 128, 165, 255}

\* The order test turned round: MSBFIRST tested, everything else LSB first.
BitIndex_msb(bitOrder, i) == IF bitOrder = MSBFIRST THEN 7 - i ELSE i

\* The bit position shiftIn and shiftOut use at iteration i.
BitIndex(bitOrder, i) == IF bitOrder = LSBFIRST THEN i ELSE 7 - i

\* The sample assigned to value instead of or-ed into it.
OrSample_assign(value, r, k) == ToUint8(r * Pow2(k))

\* value |= digitalRead(dataPin) << k, stored back into the uint8_t value.
OrSample(value, r, k) == BitOr(value, ToUint8(r * Pow2(k)))

\* The masked bit without the double negation.
BitOf_raw(val, k) == BitAnd(val, Pow2(k))

\* !!(val & (1 << k))
BitOf(val, k) == IF BitAnd(val, Pow2(k)) # 0 THEN 1 ELSE 0

\* shiftIn, entry: value = 0, i = 0.
ShiftInCall(lines) ==
  /\ pc = "idle"
  /\ \E dataPin \in Pins, clockPin \in Pins, bitOrder \in BitOrders,
        samples \in lines :
       frame' = [NoFrame EXCEPT !.fn = "shiftIn", !.dataPin = dataPin,
                                !.clockPin = clockPin, !.bitOrder = bitOrder,
                                !.samples = samples]
  /\ log' = <<>>
  /\ ret' = <<>>
  /\ pc' = "si_high"
  /\ UNCHANGED <<hw, settings>>

\* digitalWrite(clockPin, HIGH)
shiftIn_high ==
  /\ pc = "si_high"
  /\ log' = Append(log, Call("gpioSetValue", frame.clockPin, HIGH))
  /\ pc' = "si_read"
  /\ UNCHANGED <<frame, ret, hw, settings>>

\* value |= digitalRead(dataPin) << i, or << (7 - i)
shiftIn_read ==
  /\ pc = "si_read"
  /\ LET r == frame.samples[frame.i + 1] IN
       /\ log' = Append(log, Call("gpioGetValue", frame.dataPin, r))
       /\ frame' = [frame EXCEPT
                      !.value = OrSample(@, r, BitIndex(frame.bitOrder, frame.i))]
  /\ pc' = "si_low"
  /\ UNCHANGED <<ret, hw, settings>>

\* The closing clock write driving HIGH a second time.
shiftIn_low_high ==
  /\ pc = "si_low"
  /\ log' = Append(log, Call("gpioSetValue", frame.clockPin, HIGH))
  /\ frame' = [frame EXCEPT !.i = @ + 1]
  /\ IF frame.i + 1 < 8
       THEN /\ pc' = "si_high"
            /\ ret' = ret
       ELSE /\ pc' = "done"
            /\ ret' = <<frame.value>>
  /\ UNCHANGED <<hw, settings>>

\* digitalWrite(clockPin, LOW); i++; the loop test; the return.
shiftIn_low ==
  /\ pc = "si_low"
  /\ log' = Append(log, Call("gpioSetValue", frame.clockPin, LOW))
  /\ frame' = [frame EXCEPT !.i = @ + 1]
  /\ IF frame.i + 1 < 8
       THEN /\ pc' = "si_high"
            /\ ret' = ret
       ELSE /\ pc' = "done"
            /\ ret' = <<frame.value>>
  /\ UNCHANGED <<hw, settings>>

\* shiftOut, entry: i = 0.
ShiftOutCall(bytes) ==
  /\ pc = "idle"
  /\ \E dataPin \in Pins, clockPin \in Pins, bitOrder \in BitOrders,
        val \in bytes :
       frame' = [NoFrame EXCEPT !.fn = "shiftOut", !.dataPin = dataPin,
                                !.clockPin = clockPin, !.bitOrder = bitOrder,
                                !.val = val]
  /\ log' = <<>>
  /\ ret' = <<>>
  /\ pc' = "so_data"
  /\ UNCHANGED <<hw, settings>>

\* digitalWrite(dataPin, !!(val & (1 << i))), or (1 << (7 - i))
shiftOut_data ==
  /\ pc = "so_data"
  /\ log' = Append(log, Call("gpioSetValue", frame.dataPin,
                             BitOf(frame.val, BitIndex(frame.bitOrder, frame.i))))
  /\ pc' = "so_high"
  /\ UNCHANGED <<frame, ret, hw, settings>>

\* digitalWrite(clockPin, HIGH)
shiftOut_high ==
  /\ pc = "so_high"
  /\ log' = Append(log, Call("gpioSetValue", frame.clockPin, HIGH))
  /\ pc' = "so_low"
  /\ UNCHANGED <<frame, ret, hw, settings>>

\* The closing clock write of shiftOut driving HIGH a second time.
shiftOut_low_high ==
  /\ pc = "so_low"
  /\ log' = Append(log, Call("gpioSetValue", frame.clockPin, HIGH))
  /\ frame' = [frame EXCEPT !.i = @ + 1]
  /\ pc' = IF frame.i + 1 < 8 THEN "so_data" ELSE "done"
  /\ UNCHANGED <<ret, hw, settings>>

\* digitalWrite(clockPin, LOW); i++; the loop test; the return.
shiftOut_low ==
  /\ pc = "so_low"
  /\ log' = Append(log, Call("gpioSetValue", frame.clockPin, LOW))
  /\ frame' = [frame EXCEPT !.i = @ + 1]
  /\ pc' = IF frame.i + 1 < 8 THEN "so_data" ELSE "done"
  /\ UNCHANGED <<ret, hw, settings>>

-----------------------------------------------------------------------------
(* 5. Time                                                                 *)

\* unsigned int arguments of delay and delayMicroseconds; -1 is 2^32 - 1.
DelayArgs == {0, 1, 1000, 4294967, 4294968, 2147483647, -1}
\* What clock_gettime delivers: a failure (-1), or tv_sec and tv_nsec.
ClockReadings ==
  {[ok |-> FALSE, sec |-> 0, nsec |-> 0]} \cup
  [ok : {TRUE}, sec : {0, 1, 2147, 2148, 4294, 4295, 1400000000, 2147483647},
   nsec : {0, 999, 1000, 500000000, 999999999}]

\* usleep(ms * 1000)
delay ==
  /\ pc = "idle"
  /\ \E ms \in DelayArgs :
       /\ frame' = [NoFrame EXCEPT !.fn = "delay", !.arg = ms]
       /\ log' = <<Call("usleep", Mul32(ms, 1000), 0)>>
  /\ ret' = <<>>
  /\ pc' = "done"
  /\ UNCHANGED <<hw, settings>>

\* usleep(mcs)
delayMicroseconds ==
  /\ pc = "idle"
  /\ \E mcs \in DelayArgs :
       /\ frame' = [NoFrame EXCEPT !.fn = "delayMicroseconds", !.arg = mcs]
       /\ log' = <<Call("usleep", mcs, 0)>>
  /\ ret' = <<>>
  /\ pc' = "done"
  /\ UNCHANGED <<hw, settings>>

\* The calls micros makes: clock_gettime, and debug when it failed.
MicrosLog(c) ==
  IF c.ok THEN <<Call("clock_gettime", 0, 0)>>
  ELSE <<Call("clock_gettime", 0, -1), Call("debug", 0, 0)>>

\* What micros returns: CLOCK_TIME_ERROR, or tv_sec * 1000000L +
\* tv_nsec / 1000L in 32-bit arithmetic, which wraps.
MicrosValue(c) ==
  IF c.ok THEN Add32(Mul32(c.sec, 1000000), c.nsec \div 1000)
  ELSE CLOCK_TIME_ERROR

micros ==
  /\ pc = "idle"
  /\ \E c \in ClockReadings :
       /\ frame' = [NoFrame EXCEPT !.fn = "micros", !.clock = c]
       /\ log' = MicrosLog(c)
       /\ ret' = <<MicrosValue(c)>>
  /\ pc' = "done"
  /\ UNCHANGED <<hw, settings>>

\* The division rounding to the nearest millisecond.
MilisValue_rounding(m) == UDiv32(Add32(m, 500), 1000)

\* micros() / 1000, on whatever micros returned.
MilisValue(m) == UDiv32(m, 1000)

milis ==
  /\ pc = "idle"
  /\ \E c \in ClockReadings :
       /\ frame' = [NoFrame EXCEPT !.fn = "milis", !.clock = c]
       /\ log' = MicrosLog(c)
       /\ ret' = <<MilisValue(MicrosValue(c))>>
  /\ pc' = "done"
  /\ UNCHANGED <<hw, settings>>

shiftIn_call == ShiftInCall(SomeLines)
shiftOut_call == ShiftOutCall(SomeBytes)

Next ==
  \/ caller_continue
  \/ pinMode_call
  \/ pinMode_export
  \/ pinMode_dir
  \/ digitalWrite
  \/ digitalRead
  \/ analogReference
  \/ analogRead_call
  \/ analogRead_lookup
  \/ analogRead_enable
  \/ analogRead_start
  \/ analogRead_poll
  \/ converter_stalls
  \/ analogRead_poll_stuck
  \/ analogRead_read
  \/ analogRead_disable
  \/ shiftIn_call
  \/ shiftIn_high
  \/ shiftIn_read
  \/ shiftIn_low
  \/ shiftOut_call
  \/ shiftOut_data
  \/ shiftOut_high
  \/ shiftOut_low
  \/ delay
  \/ delayMicroseconds
  \/ micros
  \/ milis

Spec == Init /\ [][Next]_vars

-----------------------------------------------------------------------------
(* The shift protocol on its own, over every byte and every data line, and *)
(* with a loop-back register on the two pins: the register latches the     *)
(* level of the data line on each HIGH written to the clock line during a  *)
(* shiftOut, and presents the latched levels, first in first out, to the   *)
(* reads of the shiftIn that follows.                                      *)

RECURSIVE Latched(_, _, _, _)
Latched(l, dataPin, clockPin, level) ==
  IF l = <<>> THEN <<>>
  ELSE LET c == Head(l) IN
    IF c.op = "gpioSetValue" /\ c.a = dataPin
      THEN Latched(Tail(l), dataPin, clockPin, c.b)
    ELSE IF c.op = "gpioSetValue" /\ c.a = clockPin /\ c.b = HIGH
      THEN <<level>> \o Latched(Tail(l), dataPin, clockPin, level)
    ELSE Latched(Tail(l), dataPin, clockPin, level)

shiftIn_all == ShiftInCall(AllLines)
shiftOut_all == ShiftOutCall(AllBytes)

\* shiftIn right after a shiftOut, same pins and bit order, on the register.
shiftIn_loopback ==
  /\ pc = "done"
  /\ frame.fn = "shiftOut"
  /\ frame.dataPin # frame.clockPin
  /\ frame' = [NoFrame EXCEPT !.fn = "shiftIn", !.dataPin = frame.dataPin,
                               !.clockPin = frame.clockPin,
                               !.bitOrder = frame.bitOrder,
                               !.samples = Latched(log, frame.dataPin,
                                                   frame.clockPin, LOW),
                               !.val = frame.val, !.loopback = TRUE]
  /\ log' = <<>>
  /\ ret' = <<>>
  /\ pc' = "si_high"
  /\ UNCHANGED <<hw, settings>>

NextShift ==
  \/ caller_continue
  \/ shiftIn_all
  \/ shiftIn_high
  \/ shiftIn_read
  \/ shiftIn_low
  \/ shiftOut_all
  \/ shiftOut_data
  \/ shiftOut_high
  \/ shiftOut_low
  \/ shiftIn_loopback

SpecShift == Init /\ [][NextShift]_vars

-----------------------------------------------------------------------------
(* The analog reader on its own, with the thread that runs it never        *)
(* stopping: a step of analogRead that can change the state is taken.      *)

AnalogStep ==
  \/ analogRead_lookup
  \/ analogRead_enable
  \/ analogRead_start
  \/ analogRead_poll
  \/ analogRead_poll_stuck
  \/ analogRead_read
  \/ analogRead_disable

NextPoll ==
  \/ caller_continue
  \/ analogRead_call
  \/ converter_stalls
  \/ AnalogStep

SpecPoll == Init /\ [][NextPoll]_vars /\ WF_vars(AnalogStep)

-----------------------------------------------------------------------------
(* mapResolution on its own: the function applied to 32-bit values and bit *)
(* widths of a bounded set.  The widths stay within 1..32, so that no      *)
(* shift count reaches the width of the word.                              *)

MapValues ==
  {0, 1, 3, 2730, 4095, 65535, 65536, 305419896, 2147483647,
   -1, -559038737, -2147483647 - 1}
MapWidths == {1, 8, 10, 12, 16, 24, 32}

InitMap ==
  /\ pc = "map"
  /\ \E value \in MapValues, from \in MapWidths, to \in MapWidths :
       frame = [NoFrame EXCEPT !.fn = "mapResolution", !.value = value,
                               !.from = from, !.to = to]
  /\ log = <<>>
  /\ ret = <<>>
  /\ exported = {}
  /\ dir = [p \in Pins |-> "none"]
  /\ adcEnabled = {}
  /\ analog_reference = AR_DEFAULT
  /\ _readResolution = 10
  /\ _writeResolution = 8

mapResolution_apply ==
  /\ pc = "map"
  /\ ret' = <<mapResolution(frame.value, frame.from, frame.to)>>
  /\ pc' = "done"
  /\ UNCHANGED <<frame, log, hw, settings>>

NextMap == mapResolution_apply

SpecMap == InitMap /\ [][NextMap]_vars

-----------------------------------------------------------------------------
(* Properties of the analog reader and of pinMode, under Spec.             *)

AdcOps == {"adc_enable_channel", "adc_start", "adc_get_status",
           "adc_get_latest_value", "adc_disable_channel"}
GpioOps == {"gpioExport", "gpioSetDirInput", "gpioSetDirOutput",
            "gpioSetValue", "gpioGetValue"}

\* The calls of l whose name is in ops, in order.
Only(l, ops) == SelectSeq(l, LAMBDA c : c.op \in ops)
Count(l, op) == Len(Only(l, {op}))
DataReady(status) == (status \div ADC_ISR_DRDY) % 2 = 1

InAnalogRange(p) == A0 <= p /\ p <= CANTX
StandardSet == {0, 1, 2, 3, 4, 5, 7, 8, 9, 10, 11}
OnStandardChannel ==
  /\ frame.fn = "analogRead"
  /\ InAnalogRange(frame.pin)
  /\ analogPin[frame.pin].analogChannel \in StandardSet

\* C1: an analogRead of a pin on a standard-width channel issues one
\* adc_enable_channel, one adc_start, one or more adc_get_status, one
\* adc_get_latest_value and one adc_disable_channel, in that order; the value
\* is read only right after a poll that returned with the data-ready bit set
\* (every earlier poll returned without it), and enable and disable name the
\* same channel number.  While the call runs, what it has issued so far is a
\* prefix of that sequence.
C1_ConversionSequence ==
  OnStandardChannel =>
    LET a == Only(log, AdcOps)
        n == Len(a)
    IN /\ \A k \in 1..n :
            /\ k = 1 => a[k].op = "adc_enable_channel"
            /\ k = 2 => a[k].op = "adc_start"
            /\ k = 3 => a[k].op = "adc_get_status"
            /\ k > 3 =>
                 \/ /\ a[k].op = "adc_get_status"
                    /\ a[k - 1].op = "adc_get_status"
                    /\ ~DataReady(a[k - 1].b)
                 \/ /\ a[k].op = "adc_get_latest_value"
                    /\ a[k - 1].op = "adc_get_status"
                    /\ DataReady(a[k - 1].b)
                 \/ /\ a[k].op = "adc_disable_channel"
                    /\ a[k - 1].op = "adc_get_latest_value"
                    /\ a[k].a = a[1].a
                    /\ k = n
       /\ pc = "done" => /\ n >= 5
                         /\ a[n].op = "adc_disable_channel"
                         /\ Count(log, "adc_enable_channel") = 1
                         /\ Count(log, "adc_start") = 1
                         /\ Count(log, "adc_get_latest_value") = 1
                         /\ Count(log, "adc_disable_channel") = 1

\* A finished conversion that polled more than once.
C1_Witness ==
  /\ OnStandardChannel
  /\ pc = "done"
  /\ Count(log, "adc_get_status") >= 2
  /\ Count(log, "adc_disable_channel") = 1

\* C2: whenever no call is in progress no ADC channel is enabled, and a call
\* that has returned issued, for each channel, as many adc_disable_channel as
\* adc_enable_channel.
C2_NoChannelLeftEnabled ==
  NoCall =>
    /\ adcEnabled = {}
    /\ \A k \in 1..Len(log) :
         log[k].op = "adc_enable_channel" =>
           \E j \in (k + 1)..Len(log) :
             log[j].op = "adc_disable_channel" /\ log[j].a = log[k].a

\* An analogRead that enabled a channel has returned.
C2_Witness ==
  /\ pc = "done"
  /\ frame.fn = "analogRead"
  /\ Count(log, "adc_enable_channel") = 1
  /\ adcEnabled = {}

\* C3: analogRead of a pin below A0 or above CANTX has returned
\* NOT_ANALOG_PIN_ERROR having issued no ADC call and no lookup in the pin
\* table; for a pin from A0 to CANTX, both included, the call goes on to the
\* table lookup and does not report the pin.
C3_RangeCheck ==
  frame.fn = "analogRead" =>
    /\ (frame.pin < A0 \/ frame.pin > CANTX) =>
         /\ pc = "done"
         /\ ret = <<NOT_ANALOG_PIN_ERROR>>
         /\ Only(log, AdcOps \cup {"analogPin"}) = <<>>
    /\ (A0 <= frame.pin /\ frame.pin <= CANTX) =>
         /\ Count(log, "debug") = 0
         /\ pc = "done" => Count(log, "analogPin") = 1

\* The first pin above the range was rejected.
C3_Witness ==
  /\ pc = "done"
  /\ frame.fn = "analogRead"
  /\ frame.pin = CANTX + 1
  /\ ret = <<NOT_ANALOG_PIN_ERROR>>
  /\ Count(log, "debug") = 1

\* C4: analogRead of a pin of the analog range whose table entry names a
\* channel other than ADC0-ADC5 and ADC7-ADC11 issues no ADC call and
\* returns 0.
C4_OtherChannelReadsZero ==
  ( /\ frame.fn = "analogRead"
    /\ InAnalogRange(frame.pin)
    /\ analogPin[frame.pin].analogChannel \notin StandardSet ) =>
      /\ Only(log, AdcOps) = <<>>
      /\ pc \in {"ar_lookup", "done"}
      /\ pc = "done" => ret = <<0>>

\* The pin on ADC6 read as 0.
C4_Witness ==
  /\ pc = "done"
  /\ frame.fn = "analogRead"
  /\ InAnalogRange(frame.pin)
  /\ analogPin[frame.pin].analogChannel = 6
  /\ ret = <<0>>

BadModeCall(f) == f.fn = "pinMode" /\ f.mode \notin {INPUT, OUTPUT}

\* C5: pinMode with a mode other than INPUT and OUTPUT returns at once,
\* having reported to the diagnostic sink exactly once and called nothing
\* else, and the step that performs it leaves the export and direction state
\* of every pin as it was.
C5_BadModeRejected ==
  /\ [](BadModeCall(frame) => pc = "done" /\ log = <<Call("debug", 0, 0)>>)
  /\ [][BadModeCall(frame') => exported' = exported /\ dir' = dir]_vars

\* A bad mode was rejected on a pin that stays configured as an output.
C5_Witness ==
  /\ BadModeCall(frame)
  /\ pc = "done"
  /\ frame.pin \in exported
  /\ dir[frame.pin] = "out"
  /\ Count(log, "debug") = 1

GoodModeCall == frame.fn = "pinMode" /\ frame.mode \in {INPUT, OUTPUT}
DirCall(mode, pin) ==
  IF mode = INPUT THEN Call("gpioSetDirInput", pin, 0)
  ELSE Call("gpioSetDirOutput", pin, 0)

\* C6: pinMode with mode INPUT or OUTPUT calls gpioExport(pin) and then one
\* direction call on the same pin, gpioSetDirInput for INPUT and
\* gpioSetDirOutput for OUTPUT, and nothing else; the export comes first on
\* every call, whatever the pin's state before it.
C6_ExportThenDirection ==
  GoodModeCall =>
    /\ pc \in {"pm_export", "pm_dir", "done"}
    /\ pc = "pm_export" => log = <<>>
    /\ pc = "pm_dir" => log = <<Call("gpioExport", frame.pin, 0)>>
    /\ pc = "done" => /\ log = <<Call("gpioExport", frame.pin, 0),
                                 DirCall(frame.mode, frame.pin)>>
                      /\ frame.pin \in exported
                      /\ dir[frame.pin] = IF frame.mode = INPUT THEN "in" ELSE "out"

\* A pin already exported as an output has been exported again by
\* pinMode(pin, INPUT), whose direction call is still to come.
C6_Witness ==
  /\ GoodModeCall
  /\ frame.mode = INPUT
  /\ pc = "pm_dir"
  /\ dir[frame.pin] = "out"
  /\ log = <<Call("gpioExport", frame.pin, 0)>>

-----------------------------------------------------------------------------
(* Properties of the shift protocol, under SpecShift.                      *)

WritesTo(pin) ==
  {k \in 1..Len(log) : log[k].op = "gpioSetValue" /\ log[k].a = pin}
Reads == {k \in 1..Len(log) : log[k].op = "gpioGetValue"}

\* C7: a shiftIn that follows a shiftOut on the loop-back register, with the
\* same pins and bit order, returns the byte that was shifted out.
C7_LoopbackRoundTrip ==
  (pc = "done" /\ frame.fn = "shiftIn" /\ frame.loopback) => ret = <<frame.val>>

\* The byte 29 (not a bit palindrome) came back, least significant bit first.
C7_Witness ==
  /\ pc = "done"
  /\ frame.fn = "shiftIn"
  /\ frame.loopback
  /\ frame.bitOrder = LSBFIRST
  /\ frame.val = 29
  /\ ret = <<29>>

\* The calls of a shiftIn come in threes: clockPin HIGH, a read of dataPin,
\* clockPin LOW; a finished call has issued eight of each and no other.
ShiftInTrace ==
  frame.fn = "shiftIn" =>
    /\ \A k \in 1..Len(log) :
         /\ k % 3 = 1 => log[k] = Call("gpioSetValue", frame.clockPin, HIGH)
         /\ k % 3 = 2 => log[k].op = "gpioGetValue" /\ log[k].a = frame.dataPin
         /\ k % 3 = 0 => log[k] = Call("gpioSetValue", frame.clockPin, LOW)
    /\ pc = "done" => Len(log) = 24

\* C8 as stated: the trace above, and no call of shiftIn writes dataPin.
C8_AsStated ==
  /\ ShiftInTrace
  /\ frame.fn = "shiftIn" => WritesTo(frame.dataPin) = {}

\* C8: shiftIn reads dataPin 8 times and writes clockPin HIGH then LOW 8
\* times, the k-th read between the k-th HIGH and the k-th LOW; it writes
\* dataPin in no call whose dataPin and clockPin are different pins.
C8_ShiftInClocking ==
  /\ ShiftInTrace
  /\ (frame.fn = "shiftIn" /\ frame.dataPin # frame.clockPin) =>
       WritesTo(frame.dataPin) = {}

\* A finished shiftIn on two different pins, with its eight reads.
C8_Witness ==
  /\ pc = "done"
  /\ frame.fn = "shiftIn"
  /\ frame.dataPin # frame.clockPin
  /\ Cardinality(Reads) = 8
  /\ Cardinality(WritesTo(frame.clockPin)) = 16

\* The sample the i-th read of the call returned, i = 0..7.
Sample(i) == log[3 * i + 2].b
Bit(v, k) == (v \div Pow2(k)) % 2

\* C9: when the eight reads of a shiftIn returned s0..s7 in {0,1}, the byte
\* returned has bit i equal to s_i if bitOrder is LSBFIRST and bit 7-i equal
\* to s_i otherwise, and is below 256.
C9_ShiftInValue ==
  ( /\ pc = "done"
    /\ frame.fn = "shiftIn"
    /\ \A i \in 0..7 : Sample(i) \in {0, 1} ) =>
      /\ Len(ret) = 1
      /\ ret[1] \in 0..255
      /\ \A i \in 0..7 :
           IF frame.bitOrder = LSBFIRST
             THEN Bit(ret[1], i) = Sample(i)
             ELSE Bit(ret[1], 7 - i) = Sample(i)

\* With a bitOrder that is neither LSBFIRST nor MSBFIRST, the samples
\* 1,0,1,1,0,0,0,0 gave bits 7, 5 and 4: the byte 176.
C9_Witness ==
  /\ pc = "done"
  /\ frame.fn = "shiftIn"
  /\ frame.bitOrder \notin {LSBFIRST, MSBFIRST}
  /\ [i \in 0..7 |-> Sample(i)] = [i \in 0..7 |-> IF i \in {0, 2, 3} THEN 1 ELSE 0]
  /\ ret = <<176>>

\* The calls of a shiftOut come in threes: dataPin set to bit i (LSBFIRST) or
\* bit 7-i of val, as 0 or 1, then clockPin HIGH, then clockPin LOW; a
\* finished call has issued eight of each, and no call reads a pin.
ShiftOutTrace ==
  frame.fn = "shiftOut" =>
    /\ \A k \in 1..Len(log) :
         /\ k % 3 = 1 =>
              LET i == (k - 1) \div 3 IN
                log[k] = Call("gpioSetValue", frame.dataPin,
                              IF frame.bitOrder = LSBFIRST
                                THEN Bit(frame.val, i) ELSE Bit(frame.val, 7 - i))
         /\ k % 3 = 2 => log[k] = Call("gpioSetValue", frame.clockPin, HIGH)
         /\ k % 3 = 0 => log[k] = Call("gpioSetValue", frame.clockPin, LOW)
    /\ pc = "done" => Len(log) = 24
    /\ Reads = {}

\* The writes of a shiftOut to dataPin are its data writes alone, so that the
\* pin is not written between a data write and the LOW of its pulse.
DataHeld == \A k \in WritesTo(frame.dataPin) : k % 3 = 1

\* C10 as stated: the trace above, and dataPin held through every pulse.
C10_AsStated ==
  /\ ShiftOutTrace
  /\ frame.fn = "shiftOut" => DataHeld

\* C10: shiftOut writes, for i = 0..7, the bit to dataPin and then HIGH and
\* LOW to clockPin, 8 data writes and 8 pulses, and reads no pin; in a call
\* whose dataPin and clockPin are different pins, dataPin is not written
\* again until the LOW of the pulse has been written.
C10_ShiftOutClocking ==
  /\ ShiftOutTrace
  /\ (frame.fn = "shiftOut" /\ frame.dataPin # frame.clockPin) => DataHeld

\* A finished shiftOut of the byte 29 on two different pins.
C10_Witness ==
  /\ pc = "done"
  /\ frame.fn = "shiftOut"
  /\ frame.dataPin # frame.clockPin
  /\ frame.val = 29
  /\ Cardinality(WritesTo(frame.dataPin)) = 8
  /\ Cardinality(WritesTo(frame.clockPin)) = 16

-----------------------------------------------------------------------------
(* Properties of mapResolution, under SpecMap.                             *)

\* Bit k (0..31) of a 32-bit word.
WordBit(x, k) ==
  IF k < 16 THEN (ULo(x) \div Pow2(k)) % 2 ELSE (UHi(x) \div Pow2(k - 16)) % 2

\* C11: mapResolution(value, from, to) is value when from = to; when
\* from > to it is value shifted right by from - to, its low bits dropped
\* (bit k of the result is bit k + from - to of value, and 0 above); when
\* from < to it is value shifted left by to - from within 32 bits (bit k of
\* the result is bit k - (to - from) of value, and 0 below).
C11_MapResolution ==
  (pc = "done" /\ frame.fn = "mapResolution") =>
    LET v == frame.value
        r == ret[1]
        d == IF frame.from > frame.to THEN frame.from - frame.to
             ELSE frame.to - frame.from
    IN /\ frame.from = frame.to => r = v
       /\ frame.from > frame.to =>
            \A k \in 0..31 :
              WordBit(r, k) = IF k + d <= 31 THEN WordBit(v, k + d) ELSE 0
       /\ frame.from < frame.to =>
            \A k \in 0..31 :
              WordBit(r, k) = IF k >= d THEN WordBit(v, k - d) ELSE 0

\* 4095 taken from 12 to 10 bits gave 1023: the two low bits were dropped.
C11_Witness ==
  /\ pc = "done"
  /\ frame.fn = "mapResolution"
  /\ frame.value = 4095
  /\ frame.from = 12
  /\ frame.to = 10
  /\ ret = <<1023>>

-----------------------------------------------------------------------------
(* Properties of the timing functions, under Spec.                         *)

\* x < y as unsigned 32-bit words.
ULess(x, y) == UHi(x) < UHi(y) \/ (UHi(x) = UHi(y) /\ ULo(x) < ULo(y))

ClockFailed == frame.fn \in {"micros", "milis"} /\ ~frame.clock.ok

\* C12: when clock_gettime fails, micros and milis both hand the caller
\* CLOCK_TIME_ERROR, and milis does not return CLOCK_TIME_ERROR / 1000.
C12_ClockErrorReachesCaller ==
  (pc = "done" /\ ClockFailed) =>
    /\ ret = <<CLOCK_TIME_ERROR>>
    /\ frame.fn = "milis" => ret # <<UDiv32(CLOCK_TIME_ERROR, 1000)>>

\* The microseconds a delay call asked usleep for.
Requested == log[1].a

\* C13: delay(ms) asks usleep for at least ms * 1000 microseconds, that is
\* for a count whose thousandth part is not below ms, and
\* delayMicroseconds(mcs) asks for at least mcs.
C13_SleepsAtLeast ==
  /\ (pc = "done" /\ frame.fn = "delay") =>
       /\ log[1].op = "usleep"
       /\ ~ULess(UDiv32(Requested, 1000), frame.arg)
  /\ (pc = "done" /\ frame.fn = "delayMicroseconds") =>
       /\ log[1].op = "usleep"
       /\ ~ULess(Requested, frame.arg)

\* C17: for a successful clock reading, milis returns the integral part of
\* m / 1000, m being what micros returns for that reading: the r with
\* r * 1000 <= m < (r + 1) * 1000, in unsigned 32-bit numbers.
C17_MilisIsMicrosOver1000 ==
  (pc = "done" /\ frame.fn = "milis" /\ frame.clock.ok) =>
    LET m == MicrosValue(frame.clock)
        r == ret[1]
    IN /\ 0 <= r /\ r <= 4294967
       /\ \E k \in 0..999 : Add32(Mul32(r, 1000), k) = m

\* A reading whose microsecond count wrapped: 1400000000 s, 999999999 ns.
C17_Witness ==
  /\ pc = "done"
  /\ frame.fn = "milis"
  /\ frame.clock = [ok |-> TRUE, sec |-> 1400000000, nsec |-> 999999999]
  /\ ret = <<3871261>>

-----------------------------------------------------------------------------
(* Properties of the poll loop, under SpecPoll.                            *)

\* C14: the poll loop of analogRead is left only by a poll that returned
\* with the data-ready bit set; once the converter has stalled the call
\* stays in the loop, with no value read, the channel not disabled and
\* still enabled; and a call in the loop returns unless the converter
\* stalls.
C14_PollHasNoTimeout ==
  /\ [][(pc = "ar_poll" /\ pc' # "ar_poll") =>
          /\ pc' = "ar_read"
          /\ Len(log') = Len(log) + 1
          /\ log'[Len(log')].op = "adc_get_status"
          /\ DataReady(log'[Len(log')].b)]_vars
  /\ [](frame.stuck =>
          /\ pc = "ar_poll"
          /\ Count(log, "adc_get_latest_value") = 0
          /\ Count(log, "adc_disable_channel") = 0
          /\ frame.myPinChannel \in adcEnabled)
  /\ [][frame.stuck => frame'.stuck]_vars
  /\ (pc = "ar_poll" ~> (pc = "done" \/ frame.stuck))

\* A call that has polled a stalled converter MaxPolls times and polls on.
C14_Witness ==
  /\ pc = "ar_poll"
  /\ frame.stuck
  /\ frame.polls = MaxPolls
  /\ Count(log, "adc_get_status") = MaxPolls
  /\ adcEnabled # {}

-----------------------------------------------------------------------------
(* Who acquires pins, under Spec.                                          *)

AcquireOps == {"gpioExport", "gpioSetDirInput", "gpioSetDirOutput"}

\* C15: the exported pins and the directions change only in a pinMode call
\* with a valid mode, and only such a call issues gpioExport or a
\* set-direction call; digitalWrite issues exactly one gpioSetValue, with
\* its pin and value, whatever the state of the pin; digitalRead issues
\* exactly one gpioGetValue on its pin and returns what that call returned;
\* shiftIn and shiftOut issue no gpioExport and no set-direction call.
C15_OnlyPinModeAcquires ==
  /\ [][(exported' # exported \/ dir' # dir) =>
          (frame'.fn = "pinMode" /\ frame'.mode \in {INPUT, OUTPUT})]_vars
  /\ [](Only(log, AcquireOps) # <<>> =>
          (frame.fn = "pinMode" /\ frame.mode \in {INPUT, OUTPUT}))
  /\ [](frame.fn = "digitalWrite" =>
          log = <<Call("gpioSetValue", frame.pin, frame.val)>>)
  /\ [](frame.fn = "digitalRead" =>
          /\ Len(log) = 1
          /\ log[1].op = "gpioGetValue"
          /\ log[1].a = frame.pin
          /\ ret = <<log[1].b>>)

\* A digitalWrite that has written to a pin nobody exported or gave a
\* direction.
C15_Witness ==
  /\ pc = "done"
  /\ frame.fn = "digitalWrite"
  /\ frame.pin \notin exported
  /\ dir[frame.pin] # "out"
  /\ log = <<Call("gpioSetValue", frame.pin, HIGH)>>

-----------------------------------------------------------------------------
(* The analog reference and the conversion, under Spec.                    *)

\* C16: in every analogRead call that starts a conversion, a read of the
\* analog reference comes before adc_start.
C16_ReferenceReadBeforeStart ==
  \A k \in 1..Len(log) :
    log[k].op = "adc_start" =>
      \E j \in 1..(k - 1) : log[j].op = "analog_reference"

-----------------------------------------------------------------------------
(* The three settings, under Spec.                                         *)

\* C18: the read resolution is always 10 and the write resolution always
\* 8; the analog reference is AR_DEFAULT at the start, a step changes it
\* only as the call analogReference(m), and when that call has returned the
\* reference is m; a step of any other operation leaves the three settings
\* as they are.
C18_SettingsStable ==
  /\ analog_reference = AR_DEFAULT
  /\ [](_readResolution = 10 /\ _writeResolution = 8)
  /\ [][analog_reference' # analog_reference =>
          (pc = "idle" /\ frame'.fn = "analogReference")]_vars
  /\ [](frame.fn = "analogReference" => analog_reference = frame.mode)
  /\ [][frame'.fn # "analogReference" => UNCHANGED settings]_vars

\* analogReference has returned from storing a reference other than the
\* default.
C18_Witness ==
  /\ pc = "done"
  /\ frame.fn = "analogReference"
  /\ frame.mode = AR_OTHER
  /\ analog_reference = AR_OTHER

-----------------------------------------------------------------------------
(* Read errors in shiftIn, under SpecShift.                                *)

\* A sample with the error value replaced by a LOW level.
AsLow(r) == IF r = GPIO_READ_ERROR THEN LOW ELSE r

\* C19: when a read of a shiftIn returned the error value, the byte
\* returned is the byte of the same call with a LOW level read in its
\* place: each bit position holds the sample of its iteration, the error
\* counted as LOW.
C19_ReadErrorAbsorbed ==
  (/\ pc = "done"
   /\ frame.fn = "shiftIn"
   /\ \E i \in 0..7 : Sample(i) = GPIO_READ_ERROR) =>
    \A j \in 0..7 :
      Bit(ret[1], BitIndex(frame.bitOrder, j)) = AsLow(Sample(j))

-----------------------------------------------------------------------------
(* The clock line across shift calls, under SpecShift.                     *)

ShiftCall == frame.fn \in {"shiftIn", "shiftOut"}
\* The levels the call has written to its clock pin, in order.
ClockLevels ==
  LET w == SelectSeq(log, LAMBDA c : c.op = "gpioSetValue" /\ c.a = frame.clockPin)
  IN  [k \in 1..Len(w) |-> w[k].b]
Alternating(l) == \A k \in 1..Len(l) : l[k] = IF k % 2 = 1 THEN HIGH ELSE LOW
RestsLow ==
  (ShiftCall /\ pc = "done") =>
    (ClockLevels # <<>> /\ ClockLevels[Len(ClockLevels)] = LOW)

\* C20 as stated: the clock pin rests LOW after every shift call, and in
\* every shift call the writes to clockPin alternate HIGH, LOW from HIGH.
C20_AsStated ==
  /\ RestsLow
  /\ ShiftCall => Alternating(ClockLevels)

\* C20: when a shift call has returned, the last level it wrote to its
\* clock pin is LOW; within a shiftIn call, and within a shiftOut call
\* whose dataPin and clockPin are different pins, the writes to clockPin
\* alternate HIGH, LOW, HIGH, LOW starting with HIGH.
C20_ClockRestsLow ==
  /\ RestsLow
  /\ (ShiftCall /\ (frame.fn = "shiftIn" \/ frame.dataPin # frame.clockPin)) =>
       Alternating(ClockLevels)

\* A finished shiftOut on two different pins, its sixteen clock writes made.
C20_Witness ==
  /\ pc = "done"
  /\ frame.fn = "shiftOut"
  /\ frame.dataPin # frame.clockPin
  /\ frame.val = 165
  /\ Len(ClockLevels) = 16

=============================================================================
